---- MODULE Spec2Model ----
(***************************************************************************)
(* State-machine model of the StockTickerOverlay widget                    *)
(* (src/src/stock-ticker-overlay.tsx): the fetch-with-fallback effect, the *)
(* lookback toggle, the hover lookup and the series-to-geometry transform. *)
(*                                                                         *)
(* Conventions                                                             *)
(*  - prices are kept in hundredths (160.02 is 16002), so that the         *)
(*    hard-coded demonstration series stay exact integers;                 *)
(*  - a calendar date "YYYY-MM-DD" is its UTC day number, a timestamp is   *)
(*    epoch milliseconds; toISOString().split("T")[0] is t \div MsPerDay;  *)
(*  - null is Null (the empty tuple), a present value v is Some(v);        *)
(*  - weeks ranges over the declared prop type (number);                   *)
(*  - state updates made in one synchronous run of a handler or of one     *)
(*    promise continuation are committed together (React 18 batching), so  *)
(*    one such run is one action.                                          *)
(***************************************************************************)
EXTENDS Integers, Sequences, FiniteSets, TLC

VARIABLES
    symbol, weeks, logo,          \* props handed in by the host
    activeWeeks,                  \* useState(baseWeeks)
    loading, error,               \* useState(false), useState(null)
    closingPrices, closingDates,  \* useState([]), useState([])
    latestClose,                  \* useState(null)
    isGraphHover, hoveredIndex,   \* hover state
    tooltip,
    inflight,                     \* fetchData invocations suspended at an await
    sent,                         \* network requests issued by the handler that ran last
    issued,                       \* number of fetchData invocations so far
    latestResult,                 \* what the most recently issued invocation applied
    lastFetch,                    \* the parameters of the most recently issued invocation
    unhandled,                    \* an error escaped fetchData
    last                          \* the handler that ran last, with its inputs

vars == <<symbol, weeks, logo, activeWeeks, loading, error, closingPrices,
          closingDates, latestClose, isGraphHover, hoveredIndex, tooltip,
          inflight, sent, issued, latestResult, lastFetch, unhandled, last>>

----------------------------------------------------------------------------
(* Bounds of the model *)

MaxFetches == 2
MaxLen == 3
MaxWidth == 6

(* Input domains *)

Day0 == 20

\* new Date(): the day on which the run is observed
today == Day0
Symbols == {"VNI", "", "AAPL"}
WeeksInputs == {0, 2, 4, 105}
Logos == {"", "logo.png"}

Null == <<>>
Some(v) == <<v>>

----------------------------------------------------------------------------
(* Helpers over sequences *)

Last(s) == s[Len(s)]

Range(s) == {s[k] : k \in DOMAIN s}

\* Math.min(...prices), Math.max(...prices)
SeqMin(s) == LET R == Range(s) IN CHOOSE m \in R : \A e \in R : m <= e

SeqMax(s) == LET R == Range(s) IN CHOOSE m \in R : \A e \in R : m >= e

----------------------------------------------------------------------------
(* Demonstration data and the lookback window *)

fallbackClosingPrices2 ==
    <<14100, 13200, 14700, 15900, 16300, 15400, 12000, 17500, 16002, 18506>>

fallbackClosingPrices4 ==
    <<12000, 12300, 12700, 12400, 13000, 13400, 13200, 13800, 13600, 14000,
      14300, 14100, 14500, 14900, 14700, 15100, 15400, 15200, 15600, 16000,
      15800, 16200, 16500, 16300, 16800, 17100, 16900, 17320>>

\* weeks || 4
baseWeeksOf(w) == IF w = 0 THEN 4 ELSE w

\* baseWeeks === 2 ? 4 : 2
toggleWeeksOf(bw) == IF bw = 2 THEN 4 ELSE 2

\* activeWeeks === 4 ? fallbackClosingPrices4 : fallbackClosingPrices2
fallbackPricesFor(aw) ==
    IF aw = 4 THEN fallbackClosingPrices4 ELSE fallbackClosingPrices2

\* fault: the loop stops one day short (i > 0 for i >= 0)
buildFallbackDatesOneShort(length, now) ==
    [k \in 1..(length - 1) |-> now - (length - k)]

\* the last `length` days up to today, oldest first
buildFallbackDates(length, now) ==
    [k \in 1..length |-> now - (length - k)]

MsPerDay == 86400000

\* new Date(r.t).toISOString().split("T")[0]
isoDate(t) == t \div MsPerDay

----------------------------------------------------------------------------
(* What the remote service can answer *)

Noon(d) == d * MsPerDay + 43200000

Bar(c, d) == [c |-> c, t |-> Noon(d)]

\* bodies of the aggregates answer: results missing, empty, or 1..3 bars
AggsBodies ==
    { Null,
      Some(<<>>),
      Some(<<Bar(10000, Day0 - 1)>>),
      Some(<<Bar(15000, Day0 - 2), Bar(14000, Day0 - 1)>>),
      Some(<<Bar(5000, Day0 - 3), Bar(5000, Day0 - 2), Bar(6000, Day0 - 1)>>) }

\* a lookup answers, answers with a non-success status, is rejected by the
\* transport, or answers with a body that is not JSON
ResponseOutcomes == {"ok", "httpError", "networkError", "badJson"}

\* how the aggregates lookup can end: a failure, or an answer with a body
AggsAnswers ==
    {<<o, Null>> : o \in ResponseOutcomes \ {"ok"}}
        \cup {<<"ok", b>> : b \in AggsBodies}

----------------------------------------------------------------------------
(* The part of the state that fetchData reads and writes, as a record, so  *)
(* that the runs of one render cascade compose.                            *)

View ==
    [loading |-> loading, error |-> error, closingPrices |-> closingPrices,
     closingDates |-> closingDates, latestClose |-> latestClose,
     inflight |-> inflight, sent |-> {}, issued |-> issued,
     latestResult |-> latestResult, lastFetch |-> lastFetch]

Series(st) ==
    [prices |-> st.closingPrices, dates |-> st.closingDates,
     latest |-> st.latestClose]

\* the fallback assignments shared by the demo bypass and the catch block
applyFallback(st, aw, now) ==
    LET fallbackPrices == fallbackPricesFor(aw) IN
    [st EXCEPT !.closingPrices = fallbackPrices,
               !.closingDates = buildFallbackDates(Len(fallbackPrices), now),
               !.latestClose = Some(Last(fallbackPrices))]

\* fault: the demo bypass is missing, the sentinel goes to the network
fetchDataWithoutBypass(st, s, aw, now) ==
    LET id == st.issued + 1
        begun == [st EXCEPT !.loading = TRUE, !.error = Null, !.issued = id,
                            !.latestResult = Null,
                            !.lastFetch = Some(<<s, aw>>)]
    IN [begun EXCEPT
            !.inflight = @ \cup {[id |-> id, symbol |-> s, activeWeeks |-> aw,
                                  pc |-> "details"]},
            !.sent = @ \cup {[kind |-> "details", symbol |-> s,
                              weeks |-> 0, from |-> 0, to |-> 0]}]

\* fetchData up to its first await (or to its return on the demo bypass)
fetchData(st, s, aw, now) ==
    LET id == st.issued + 1
        begun == [st EXCEPT !.loading = TRUE, !.error = Null, !.issued = id,
                            !.latestResult = Null,
                            !.lastFetch = Some(<<s, aw>>)]
    IN
    IF s = "VNI"
    THEN LET done == [applyFallback(begun, aw, now) EXCEPT !.loading = FALSE]
         IN [done EXCEPT !.latestResult = Some(Series(done))]
    ELSE [begun EXCEPT
            !.inflight = @ \cup {[id |-> id, symbol |-> s, activeWeeks |-> aw,
                                  pc |-> "details"]},
            !.sent = @ \cup {[kind |-> "details", symbol |-> s,
                                  weeks |-> 0, from |-> 0, to |-> 0]}]

\* fault: the catch block only logs, no fallback is applied
catchBlockLogsOnly(st, f, now) ==
    LET done == [st EXCEPT !.error = Null, !.loading = FALSE,
                           !.inflight = @ \ {f}]
    IN [done EXCEPT !.latestResult =
            IF f.id = st.issued THEN Some(Series(done)) ELSE @]

\* the catch and finally blocks
catchBlock(st, f, now) ==
    LET done == [applyFallback(st, f.activeWeeks, now) EXCEPT
                    !.error = Null, !.loading = FALSE,
                    !.inflight = @ \ {f}]
    IN [done EXCEPT !.latestResult =
            IF f.id = st.issued THEN Some(Series(done)) ELSE @]

\* the success branch and the finally block
applyResults(st, f, results) ==
    LET closes == [k \in 1..Len(results) |-> results[k].c]
        dates == [k \in 1..Len(results) |-> isoDate(results[k].t)]
        done == [st EXCEPT !.closingPrices = closes,
                           !.closingDates = dates,
                           !.latestClose = Some(Last(closes)),
                           !.loading = FALSE,
                           !.inflight = @ \ {f}]
    IN [done EXCEPT !.latestResult =
            IF f.id = st.issued THEN Some(Series(done)) ELSE @]

Commit(st) ==
    /\ loading' = st.loading
    /\ error' = st.error
    /\ closingPrices' = st.closingPrices
    /\ closingDates' = st.closingDates
    /\ latestClose' = st.latestClose
    /\ inflight' = st.inflight
    /\ sent' = st.sent
    /\ issued' = st.issued
    /\ latestResult' = st.latestResult
    /\ lastFetch' = st.lastFetch

\* op: the handler; started: the fetchData invocations it began; aw: the
\* lookback window of the invocation it settled; x, width: the pointer offset
\* and the rendered width of a mouse move
Did(op, started, aw, x, w) ==
    [op |-> op, started |-> started, aw |-> aw, x |-> x, width |-> w]

----------------------------------------------------------------------------
(* Construction: the first render and its effects *)

Blank ==
    [loading |-> FALSE, error |-> Null, closingPrices |-> <<>>,
     closingDates |-> <<>>, latestClose |-> Null, inflight |-> {},
     sent |-> {}, issued |-> 0, latestResult |-> Null, lastFetch |-> Null]

Init ==
    \E s \in Symbols, w \in WeeksInputs, l \in Logos :
        LET st == fetchData(Blank, s, baseWeeksOf(w), today) IN
        /\ symbol = s /\ weeks = w /\ logo = l
        /\ activeWeeks = baseWeeksOf(w)
        /\ loading = st.loading
        /\ error = st.error
        /\ closingPrices = st.closingPrices
        /\ closingDates = st.closingDates
        /\ latestClose = st.latestClose
        /\ inflight = st.inflight
        /\ sent = st.sent
        /\ issued = st.issued
        /\ latestResult = st.latestResult
        /\ lastFetch = st.lastFetch
        /\ isGraphHover = FALSE
        /\ hoveredIndex = Null
        /\ tooltip = Null
        /\ unhandled = FALSE
        /\ last = Did("mount", 1, 0, 0, 0)

----------------------------------------------------------------------------
(* The host changes the widget's attributes: re-render, then the effects.  *)
(* The first pass renders the new props with the old activeWeeks; the      *)
(* baseWeeks effect may set activeWeeks, which renders a second pass.      *)

\* fault: the fetch effect depends on activeWeeks alone
renderCascadeWindowOnly(st, s, w, now) ==
    LET bw == baseWeeksOf(w)
        aw2 == IF bw # baseWeeksOf(weeks) THEN bw ELSE activeWeeks
    IN IF aw2 # activeWeeks THEN fetchData(st, s, aw2, now) ELSE st

renderCascade(st, s, w, now) ==
    LET bw == baseWeeksOf(w)
        pass1 == IF s # symbol THEN fetchData(st, s, activeWeeks, now) ELSE st
        aw2 == IF bw # baseWeeksOf(weeks) THEN bw ELSE activeWeeks
    IN IF aw2 # activeWeeks THEN fetchData(pass1, s, aw2, now) ELSE pass1

PropChange(s, w, l) ==
    /\ <<s, w, l>> # <<symbol, weeks, logo>>
    /\ LET st == renderCascade(View, s, w, today) IN
       /\ st.issued > issued => issued < MaxFetches
       /\ Commit(st)
       /\ activeWeeks' =
            IF baseWeeksOf(w) # baseWeeksOf(weeks) THEN baseWeeksOf(w)
            ELSE activeWeeks
       /\ last' = Did("props", st.issued - issued, 0, 0, 0)
    /\ symbol' = s /\ weeks' = w /\ logo' = l
    /\ UNCHANGED <<isGraphHover, hoveredIndex, tooltip, unhandled>>

(* A click on the chart toggles the lookback window and so refetches *)
Click ==
    /\ Len(closingPrices) > 1
    /\ issued < MaxFetches
    /\ LET bw == baseWeeksOf(weeks)
           aw == IF activeWeeks = bw THEN toggleWeeksOf(bw) ELSE bw
           st == IF aw # activeWeeks THEN fetchData(View, symbol, aw, today)
                 ELSE View
       IN /\ activeWeeks' = aw
          /\ Commit(st)
          /\ last' = Did("click", st.issued - issued, 0, 0, 0)
    /\ UNCHANGED <<symbol, weeks, logo, isGraphHover, hoveredIndex, tooltip,
                   unhandled>>

----------------------------------------------------------------------------
(* The continuations of a suspended fetchData *)

Settle(st, op, f) ==
    /\ Commit(st)
    /\ last' = Did(op, 0, f.activeWeeks, 0, 0)
    /\ UNCHANGED <<symbol, weeks, logo, activeWeeks, isGraphHover,
                   hoveredIndex, tooltip, unhandled>>

Advance(f, pc) == (inflight \ {f}) \cup {[f EXCEPT !.pc = pc]}

\* await fetch(detailsUrl), the status check and await detailsResponse.json()
\* (nothing is read or written between the two awaits), then the date range
\* and the aggregates request
DetailsSettled(f, outcome) ==
    /\ f \in inflight /\ f.pc = "details"
    /\ IF outcome = "ok"
       THEN Settle([View EXCEPT
                      !.inflight = Advance(f, "aggs"),
                      !.sent = @ \cup
                          {[kind |-> "aggs", symbol |-> f.symbol,
                            weeks |-> f.activeWeeks,
                            from |-> today - f.activeWeeks * 7,
                            to |-> today]}],
                   "step", f)
       ELSE Settle(catchBlock(View, f, today), "failed", f)

\* await fetch(aggsUrl), the status check, await aggsResponse.json(), then
\* aggsData.results?.length
AggsSettled(f, outcome, body) ==
    /\ f \in inflight /\ f.pc = "aggs"
    /\ IF outcome = "ok" /\ body # Null /\ Len(body[1]) > 0
       THEN Settle(applyResults(View, f, body[1]), "succeeded", f)
       ELSE Settle(catchBlock(View, f, today), "failed", f)

----------------------------------------------------------------------------
(* Exact arithmetic for the chart coordinates: a number is a fraction in   *)
(* lowest terms with a positive denominator.                               *)

Abs(a) == IF a < 0 THEN -a ELSE a

RECURSIVE GCD(_, _)
GCD(a, b) == IF b = 0 THEN a ELSE GCD(b, a % b)

Frac(n, d) == LET g == GCD(Abs(n), d) IN [n |-> n \div g, d |-> d \div g]

\* fault: Math.floor for Math.round
mathFloor(n, d) == {n \div d}

\* Math.round of the quotient n / d as the chart computes it: the nearest
\* integer, a tie going up.  The quotient is computed in binary floating
\* point, (x / width * 200) / (200 / (n - 1)), which at an exact tie can
\* fall a unit in the last place short of it and so round down.
mathRound(n, d) ==
    LET up == (2 * n + d) \div (2 * d) IN
    IF (2 * n + d) % (2 * d) = 0 THEN {up - 1, up} ELSE {up}

----------------------------------------------------------------------------
(* The series-to-geometry transform *)

graphBaseWidth == 200
graphBaseHeight == 140
graphBaselineInset == 20
graphTopPadding == 6
svgHeight == 160

\* maxPrice - minPrice || 1
priceRangeOf(prices) ==
    LET r == SeqMax(prices) - SeqMin(prices) IN IF r = 0 THEN 1 ELSE r

\* fault: the vertical axis is not flipped
pointOfNotFlipped(prices, i, minPrice, priceRange) ==
    LET graphInnerHeight == graphBaseHeight - graphBaselineInset - graphTopPadding
    IN [x |-> Frac(i * graphBaseWidth, Len(prices) - 1),
        y |-> Frac(graphTopPadding * priceRange
                      + (prices[i + 1] - minPrice) * graphInnerHeight,
                   priceRange)]

\* the coordinates of point i (from 0) of prices.map((price, i) => ...)
pointOf(prices, i, minPrice, priceRange) ==
    LET graphInnerHeight == graphBaseHeight - graphBaselineInset - graphTopPadding
    IN [x |-> Frac(i * graphBaseWidth, Len(prices) - 1),
        y |-> Frac((graphTopPadding + graphInnerHeight) * priceRange
                      - (prices[i + 1] - minPrice) * graphInnerHeight,
                   priceRange)]

pointsOf(prices) ==
    LET minPrice == SeqMin(prices)
        priceRange == priceRangeOf(prices)
    IN [k \in 1..Len(prices) |-> pointOf(prices, k - 1, minPrice, priceRange)]

Half(a, b) == Frac(a.n * b.d + b.n * a.d, 2 * a.d * b.d)

\* the curve segment from p0 to p1
curveTo(p0, p1) ==
    LET cpX == Half(p0.x, p1.x)
    IN [cmd |-> "C", args |-> <<cpX, p0.y, cpX, p1.y, p1.x, p1.y>>]

\* a path is the sequence of its commands; the empty string is <<>>
generateSvgPath(prices) ==
    IF Len(prices) < 2 THEN <<>>
    ELSE LET points == pointsOf(prices) IN
         <<[cmd |-> "M", args |-> <<points[1].x, points[1].y>>]>>
            \o [i \in 1..(Len(points) - 1) |-> curveTo(points[i], points[i + 1])]

generateSvgAreaPath(prices) ==
    IF Len(prices) < 2 THEN <<>>
    ELSE LET points == pointsOf(prices) IN
         <<[cmd |-> "M", args |-> <<points[1].x, Frac(graphBaseHeight, 1)>>],
           [cmd |-> "L", args |-> <<points[1].x, points[1].y>>]>>
            \o [i \in 1..(Len(points) - 1) |-> curveTo(points[i], points[i + 1])]
            \o <<[cmd |-> "L",
                  args |-> <<Last(points).x, Frac(graphBaseHeight, 1)>>],
                 [cmd |-> "Z", args |-> <<>>]>>

getGraphPoints(prices, dates) ==
    IF Len(prices) < 2 THEN <<>>
    ELSE LET points == pointsOf(prices) IN
         [k \in 1..Len(prices) |->
            [x |-> points[k].x,
             y |-> points[k].y,
             price |-> prices[k],
             date |-> IF k \in DOMAIN dates THEN Some(dates[k]) ELSE Null]]

\* what the current render draws
linePath == generateSvgPath(closingPrices)
areaPath == generateSvgAreaPath(closingPrices)

----------------------------------------------------------------------------
(* Derived statistics of the current render *)

\* fault: first minus last
rangeChangeOfReversed(prices) ==
    IF Len(prices) > 1 THEN Some(prices[1] - Last(prices)) ELSE Null

rangeChangeOf(prices) ==
    IF Len(prices) > 1 THEN Some(Last(prices) - prices[1]) ELSE Null

\* (rangeChange / (closingPrices[0] || 1)) * 100; prices are in hundredths,
\* so the substituted 1 is 100 hundredths
changePercentOf(prices) ==
    LET rc == rangeChangeOf(prices) IN
    IF rc # Null /\ Len(prices) > 1
    THEN Some(IF prices[1] = 0 THEN Frac(rc[1], 1)
              ELSE IF prices[1] > 0 THEN Frac(rc[1] * 100, prices[1])
              ELSE Frac(-(rc[1] * 100), -prices[1]))
    ELSE Null

\* rangeChange >= 0 ? "5,0 10,10 0,10" : "0,0 10,0 5,10", drawn only when
\* rangeChange is not null
indicatorOf(prices) ==
    LET rc == rangeChangeOf(prices) IN
    IF rc = Null THEN Null
    ELSE IF rc[1] >= 0 THEN Some("up") ELSE Some("down")

rangeChange == rangeChangeOf(closingPrices)
changePercent == changePercentOf(closingPrices)
indicator == indicatorOf(closingPrices)

----------------------------------------------------------------------------
(* The pointer over the chart.  The handlers exist only while the chart is *)
(* drawn (closingPrices.length > 1); they read the series and write only   *)
(* the hover state.                                                        *)

HoverFrame ==
    UNCHANGED <<symbol, weeks, logo, activeWeeks, loading, error,
                closingPrices, closingDates, latestClose, inflight, sent,
                issued, latestResult, lastFetch, unhandled>>

\* Math.max(0, Math.min(points.length - 1, Math.round(scaledX / step))) with
\* scaledX = (x / rect.width) * graphBaseWidth and
\* step = graphBaseWidth / (points.length - 1)
hoverIndex(n, x, width) ==
    { LET capped == IF r < n - 1 THEN r ELSE n - 1
      IN IF capped > 0 THEN capped ELSE 0 :
        r \in mathRound(x * graphBaseWidth * (n - 1), width * graphBaseWidth) }

MouseEnter ==
    /\ Len(closingPrices) > 1
    /\ isGraphHover' = TRUE
    /\ last' = Did("mouseenter", 0, 0, 0, 0)
    /\ UNCHANGED <<hoveredIndex, tooltip>>
    /\ HoverFrame

MouseLeave ==
    /\ Len(closingPrices) > 1
    /\ isGraphHover' = FALSE
    /\ hoveredIndex' = Null
    /\ tooltip' = Null
    /\ last' = Did("mouseleave", 0, 0, 0, 0)
    /\ HoverFrame

MouseMove(x, width) ==
    /\ Len(closingPrices) > 1
    /\ \E index \in hoverIndex(Len(getGraphPoints(closingPrices, closingDates)),
                                x, width) :
       LET points == getGraphPoints(closingPrices, closingDates)
           point == points[index + 1]
       IN /\ hoveredIndex' = Some(index)
          /\ tooltip' = Some([x |-> Frac(point.x.n * width,
                                         point.x.d * graphBaseWidth),
                              y |-> Frac(point.y.n * svgHeight,
                                         point.y.d * graphBaseHeight),
                              price |-> point.price,
                              date |-> point.date])
    /\ last' = Did("mousemove", 0, 0, x, width)
    /\ UNCHANGED isGraphHover
    /\ HoverFrame

----------------------------------------------------------------------------
(* The render of a settled series.  The fetch handlers neither read nor    *)
(* write the hover state and the hover handlers do not write the series,   *)
(* so the chart is studied on its own: the widget has settled its first    *)
(* fetch with an arbitrary answer (or with the fallback) and the pointer   *)
(* moves over the chart.                                                   *)

PriceInputs == {0, 5000, 6000}

RECURSIVE SeqsUpTo(_, _)
SeqsUpTo(S, n) ==
    IF n = 0 THEN {<<>>}
    ELSE LET shorter == SeqsUpTo(S, n - 1) IN
         shorter \cup {Append(q, e) : q \in {t \in shorter : Len(t) = n - 1},
                                      e \in S}

\* the bars of an answer with these closes, one bar a day up to yesterday
BarsOf(closes) ==
    [k \in 1..Len(closes) |-> Bar(closes[k], today - 1 - (Len(closes) - k))]

Widths == {MaxWidth - 1, MaxWidth}

\* pointer offsets from left of the chart to right of it
HoverOffsets(width) == (-1)..(width + 1)

RenderInit ==
    \E closes \in SeqsUpTo(PriceInputs, MaxLen) :
    \E how \in IF Len(closes) > 0 THEN {"answer"} ELSE {"fallback", "pending"} :
    \E w \in IF how = "fallback" THEN {2, 4} ELSE {4} :
        LET st0 == fetchData(Blank, "AAPL", w, today)
            f == [id |-> 1, symbol |-> "AAPL", activeWeeks |-> w, pc |-> "aggs"]
            st1 == [st0 EXCEPT !.inflight = {f}, !.sent = {}]
            st == IF how = "answer" THEN applyResults(st1, f, BarsOf(closes))
                  ELSE IF how = "fallback" THEN catchBlock(st1, f, today)
                  ELSE st0
        IN
        /\ symbol = "AAPL" /\ weeks = w /\ logo = ""
        /\ activeWeeks = w
        /\ loading = st.loading
        /\ error = st.error
        /\ closingPrices = st.closingPrices
        /\ closingDates = st.closingDates
        /\ latestClose = st.latestClose
        /\ inflight = st.inflight
        /\ sent = st.sent
        /\ issued = st.issued
        /\ latestResult = st.latestResult
        /\ lastFetch = st.lastFetch
        /\ isGraphHover = FALSE
        /\ hoveredIndex = Null
        /\ tooltip = Null
        /\ unhandled = FALSE
        /\ last = IF how = "answer" THEN Did("succeeded", 0, w, 0, 0)
                  ELSE IF how = "fallback" THEN Did("failed", 0, w, 0, 0)
                  ELSE Did("mount", 1, 0, 0, 0)

RenderNext ==
    \/ MouseEnter
    \/ MouseLeave
    \/ \E width \in Widths : \E x \in HoverOffsets(width) : MouseMove(x, width)

RenderSpec == RenderInit /\ [][RenderNext]_vars

Next ==
    \/ \E s \in Symbols, w \in WeeksInputs, l \in Logos : PropChange(s, w, l)
    \/ Click
    \/ \E f \in inflight, o \in ResponseOutcomes : DetailsSettled(f, o)
    \/ \E f \in inflight, a \in AggsAnswers : AggsSettled(f, a[1], a[2])

Spec == Init /\ [][Next]_vars

----------------------------------------------------------------------------
(* Properties *)

CurrentSeries ==
    [prices |-> closingPrices, dates |-> closingDates, latest |-> latestClose]

\* the fixed demonstration state for a lookback window: 28 points for four
\* weeks, 10 points otherwise, dated day by day up to today
IsDemoState(window) ==
    LET demo == IF window = 4 THEN fallbackClosingPrices4
                ELSE fallbackClosingPrices2
        n == IF window = 4 THEN 28 ELSE 10
    IN /\ Len(demo) = n
       /\ closingPrices = demo
       /\ DOMAIN closingDates = 1..n
       /\ \A k \in 1..n : closingDates[k] = today - (n - k)
       /\ latestClose = Some(demo[n])

\* the handler that ran last began a fetchData invocation
FetchBegun == last.op \in {"mount", "props", "click"} /\ last.started > 0

\* C1: once the most recently issued fetch has resolved, the series state
\* (closingPrices, closingDates, latestClose) is the one that fetch applied:
\* the result of an earlier, superseded fetch never replaces it.
C1_LatestFetchWins ==
    latestResult # Null => CurrentSeries = latestResult[1]

C3_SentinelIsDemo ==
    (FetchBegun /\ symbol = "VNI") =>
        /\ sent = {}
        /\ \A f \in inflight : f.id # issued
        /\ IsDemoState(activeWeeks)
        /\ loading = FALSE

C3_Witness ==
    /\ FetchBegun
    /\ last.op = "click"
    /\ symbol = "VNI"
    /\ activeWeeks = 2
    /\ Len(closingPrices) = 10

\* the series the renderer sees comes, prices and dates together, from one
\* answer of the aggregates lookup or from one fallback
FromOneAnswer(results) ==
    /\ DOMAIN closingPrices = DOMAIN results
    /\ DOMAIN closingDates = DOMAIN results
    /\ \A k \in DOMAIN results :
          /\ closingPrices[k] = results[k].c
          /\ closingDates[k] * MsPerDay <= results[k].t
          /\ results[k].t < (closingDates[k] + 1) * MsPerDay

FromOneFallback(demo) ==
    /\ closingPrices = demo
    /\ DOMAIN closingDates = DOMAIN demo
    /\ \A k \in DOMAIN demo : closingDates[k] = today - (Len(demo) - k)

\* C4: in every state, closingPrices and closingDates have the same length
\* and correspond index by index: both are empty, or both come from the same
\* answer, or both from the same fallback.
C4_SeriesAligned ==
    /\ Len(closingPrices) = Len(closingDates)
    /\ \/ closingPrices = <<>> /\ closingDates = <<>>
       \/ \E b \in AggsBodies : b # Null /\ FromOneAnswer(b[1])
       \/ FromOneFallback(fallbackClosingPrices2)
       \/ FromOneFallback(fallbackClosingPrices4)

C4_Witness ==
    /\ last.op = "succeeded"
    /\ Len(closingPrices) = 3
    /\ Len(closingDates) = 3
    /\ inflight # {}

MaxWeeks == 104

\* C6: the lookback window from which an aggregates request computes its
\* start date is a positive number of weeks, at most 104.
C6_WindowClamped ==
    \A r \in sent :
        r.kind = "aggs" =>
            /\ r.weeks >= 1
            /\ r.weeks <= MaxWeeks
            /\ r.from = r.to - r.weeks * 7

\* C7: a fetch invocation for a blank symbol behaves as for the sentinel:
\* no network request, the fixed demonstration state, loading false.
C7_BlankIsDemo ==
    (FetchBegun /\ symbol = "") =>
        /\ sent = {}
        /\ \A f \in inflight : f.id # issued
        /\ IsDemoState(activeWeeks)
        /\ loading = FALSE

\* C8: after a mouse move over a chart of n >= 2 points, at any horizontal
\* offset, the hovered index is in 0..n-1; at offset 0 it is 0, at the
\* rightmost pixel it is n-1, left of the chart 0, right of it n-1, and in
\* between it is an index nearest to scaledX / step.
C8_HoverIndexInRange ==
    last.op = "mousemove" =>
        LET n == Len(closingPrices)
            i == hoveredIndex[1]
            x == last.x
            width == last.width
        IN /\ hoveredIndex # Null
           /\ n >= 2
           /\ i \in 0..(n - 1)
           /\ x <= 0 => i = 0
           /\ x >= width => i = n - 1
           /\ (0 <= x /\ x <= width) =>
                 \A j \in 0..(n - 1) :
                    Abs(i * width - x * (n - 1)) <= Abs(j * width - x * (n - 1))

C8_Witness ==
    /\ last.op = "mousemove"
    /\ Len(closingPrices) = 28
    /\ last.x > 0 /\ last.x < last.width
    /\ hoveredIndex # Null
    /\ hoveredIndex[1] > 0 /\ hoveredIndex[1] < 27

\* the first point of the chart as the transform defines it: x0 = 0 and
\* y0 = topPadding + innerHeight - ((price_0 - minP) / range) * innerHeight
IsFirstPoint(px, py) ==
    LET minP == SeqMin(closingPrices)
        spread == SeqMax(closingPrices) - minP
        range == IF spread = 0 THEN 1 ELSE spread
        innerHeight == graphBaseHeight - graphBaselineInset - graphTopPadding
    IN /\ px.n = 0
       /\ py.d > 0
       /\ py.n * range =
            py.d * ((graphTopPadding + innerHeight) * range
                        - (closingPrices[1] - minP) * innerHeight)

\* C9 as stated: for a series of at least 2 points linePath and areaPath are
\* non-empty and both begin with a move-to at the first point (x0, y0); for a
\* shorter series both are empty.
C9_BothPathsMoveToFirstPoint ==
    IF Len(closingPrices) >= 2
    THEN /\ linePath # <<>>
         /\ linePath[1].cmd = "M"
         /\ IsFirstPoint(linePath[1].args[1], linePath[1].args[2])
         /\ areaPath # <<>>
         /\ areaPath[1].cmd = "M"
         /\ IsFirstPoint(areaPath[1].args[1], areaPath[1].args[2])
    ELSE linePath = <<>> /\ areaPath = <<>>

\* C9 as amended: for a series of at least 2 points both paths are non-empty;
\* linePath begins with a move-to at the first point (x0, y0); areaPath
\* begins with a move-to at (x0, canvas height), on the baseline below the
\* first point, followed by a line-to at (x0, y0); for a shorter series both
\* are empty.
C9_PathsStartAtFirstPoint ==
    IF Len(closingPrices) >= 2
    THEN /\ linePath # <<>>
         /\ linePath[1].cmd = "M"
         /\ IsFirstPoint(linePath[1].args[1], linePath[1].args[2])
         /\ Len(areaPath) >= 2
         /\ areaPath[1].cmd = "M"
         /\ areaPath[1].args[1].n = 0
         /\ areaPath[1].args[2].n = graphBaseHeight * areaPath[1].args[2].d
         /\ areaPath[2].cmd = "L"
         /\ IsFirstPoint(areaPath[2].args[1], areaPath[2].args[2])
    ELSE linePath = <<>> /\ areaPath = <<>>

C9_Witness ==
    /\ Len(closingPrices) = 3
    /\ closingPrices[1] > closingPrices[2]
    /\ closingPrices[1] < closingPrices[3]
    /\ Len(linePath) = 3
    /\ Len(areaPath) = 6

C9_WitnessShort ==
    Len(closingPrices) = 1 /\ linePath = <<>> /\ areaPath = <<>>

\* C10: the derived statistics agree with the current series: with at least
\* 2 points rangeChange is non-negative, and the indicator points up, exactly
\* when the last price is at least the first; with fewer than 2 points
\* rangeChange and changePercent are null.
C10_StatsAgree ==
    IF Len(closingPrices) >= 2
    THEN /\ rangeChange # Null
         /\ changePercent # Null
         /\ rangeChange[1] >= 0 <=> Last(closingPrices) >= closingPrices[1]
         /\ indicator = Some("up") <=> Last(closingPrices) >= closingPrices[1]
         /\ indicator = Some("down") <=> Last(closingPrices) < closingPrices[1]
    ELSE rangeChange = Null /\ changePercent = Null

C10_Witness ==
    /\ Len(closingPrices) = 3
    /\ Last(closingPrices) < closingPrices[1]
    /\ closingPrices[2] > closingPrices[1]
    /\ indicator = Some("down")

\* the most recently issued fetchData invocation is still suspended at an await
LatestPending == \E f \in inflight : f.id = issued

\* C11: while the most recently issued fetch has not resolved, loading is
\* true, also after an earlier, superseded fetch has resolved; loading is
\* false only once the latest fetch has resolved.
C11_LoadingWhileLatestPending ==
    LatestPending => loading = TRUE

====
